---- MODULE Spec2Model ----
(***************************************************************************)
(* C-Vec (src/vector.c): a type-erased, self-expanding vector.             *)
(*                                                                         *)
(* The heap is a sequence of blocks of bytes (one block per calloc), the   *)
(* Vector structs are a sequence of records (one per malloc(sizeof         *)
(* (Vector))), and a `void *` into a buffer is a byte offset into the      *)
(* block the vector's `array` field names.  Every C function is an         *)
(* operator from a memory state m = [heap, vec, status] to the memory      *)
(* state it leaves; the actions apply these operators to the variables.    *)
(*                                                                         *)
(* status is "running" while the process lives and its behaviour is        *)
(* defined, "exited" after exit(1) (vector.c:444), and "undefined" once an *)
(* access left its block, read a byte realloc left indeterminate, or an    *)
(* int overflowed in a build that does not wrap.                           *)
(***************************************************************************)
EXTENDS Integers, Sequences, FiniteSets, TLC

VARIABLES
    heap,    \* the calloc'ed buffers: a sequence of blocks of bytes
    vec,     \* the malloc'ed Vector structs: a sequence of records
    status,  \* "running", "exited" or "undefined"
    op,      \* the last call made: [name, p, x, y]
    ret,     \* what it returned (0 for a void function)
    stats,   \* the loop counts of the last sort_vector call
    pushed   \* the elements push_back was called with, in order (SpecPush)

vars == <<heap, vec, status, op, ret, stats, pushed>>

----------------------------------------------------------------------------
(* Bounds of the model.                                                    *)

\* int is IntBits wide and size_t SizeBits wide (32 and 64 in the build).
IntBits == 4
SizeBits == 6
\* push_back is offered while length < MaxLen.
MaxLen == 3
\* Largest initial_size / new_size a caller passes.
MaxRequest == 5

IntMax == 2 ^ (IntBits - 1) - 1
IntMin == 0 - 2 ^ (IntBits - 1)
SizeMod == 2 ^ SizeBits

\* A byte realloc added and nobody wrote yet.
Indet == 0 - 1

Max(a, b) == IF a >= b THEN a ELSE b
Min(a, b) == IF a <= b THEN a ELSE b

\* (size_t) x of an int x (the usual arithmetic conversions of i < length).
ToSize(x) == x % SizeMod

----------------------------------------------------------------------------
(* libc: calloc, realloc, memcpy, memcmp, and libm's pow/log/ceil.         *)

calloc(n, size) == [k \in 1..(n * size) |-> 0]

\* A realloc that hands back a new block without the old bytes.
realloc_loses(block, new_bytes) == [k \in 1..new_bytes |-> Indet]

\* The first min(old, new) bytes survive, the rest is indeterminate.  The
\* block keeps its place in `heap`: an address here names a block, not a
\* location, so a realloc that moves is the same block.
realloc(block, new_bytes) ==
    [k \in 1..new_bytes |-> IF k <= Len(block) THEN block[k] ELSE Indet]

InBlock(block, off, n) == off >= 0 /\ off + n <= Len(block)

memcpy(block, off, src) ==
    [k \in 1..Len(block) |->
        IF k > off /\ k <= off + Len(src) THEN src[k - off] ELSE block[k]]

Bytes(block, off, n) == [k \in 1..n |-> block[off + k]]

Determinate(bytes) == \A k \in 1..Len(bytes) : bytes[k] # Indet

memcmp(b1, b2) == IF b1 = b2 THEN 0 ELSE 1

RECURSIVE CeilLog2(_)
\* ceil(log(x) / log(2)) for x >= 1: the least n with 2^n >= x.
CeilLog2(x) == IF x <= 1 THEN 0 ELSE 1 + CeilLog2((x + 1) \div 2)

----------------------------------------------------------------------------
(* vector.c                                                                *)

Mem == [heap |-> heap, vec |-> vec, status |-> status]

Undefined(m) == [m EXCEPT !.status = "undefined"]

next_pow_2(x) == IF x <= 2 THEN 1 ELSE CeilLog2(x)

create_vector_with_capacity(m, elem_size, initial_size) ==
    LET actual_size == 2 ^ next_pow_2(initial_size)
        array == Len(m.heap) + 1
    IN  [m EXCEPT !.heap = Append(@, calloc(actual_size, elem_size)),
                  !.vec = Append(@, [array |-> array,
                                     elem_size |-> elem_size,
                                     length |-> 0,
                                     capacity |-> actual_size])]

\* The Vector* the last constructor call returned.
Newest(m) == Len(m.vec)

DefaultCapacity == 16

create_vector(m, elem_size) ==
    create_vector_with_capacity(m, elem_size, DefaultCapacity)

\* A `void *` into the buffer: the byte offset from vector->array.
get_elem(v, index) == index * v.elem_size

set_elem(m, p, index, element) ==
    LET v == m.vec[p]
        off == get_elem(v, index)
    IN  IF InBlock(m.heap[v.array], off, v.elem_size)
        THEN [m EXCEPT !.heap[v.array] = memcpy(@, off, element)]
        ELSE Undefined(m)

\* The elem_size bytes a get_elem pointer is read through.
Elem(m, p, index) ==
    LET v == m.vec[p]
    IN  Bytes(m.heap[v.array], get_elem(v, index), v.elem_size)

Readable(m, p, index) ==
    LET v == m.vec[p]
    IN  InBlock(m.heap[v.array], get_elem(v, index), v.elem_size)

\* realloc_ok: whether realloc returned a block (NULL: out of memory, or a
\* libc that frees and returns NULL for a request of 0 bytes).
expand_vector(m, p, new_size, realloc_ok) ==
    LET v == m.vec[p]
        new_bytes == v.elem_size * new_size
    IN  IF ~realloc_ok
        THEN [m EXCEPT !.status = "exited"]
        ELSE [m EXCEPT !.heap[v.array] = realloc(@, new_bytes),
                       !.vec[p].capacity = new_size]

push_back(m, p, element, realloc_ok) ==
    LET v == m.vec[p]
        m1 == IF v.length >= v.capacity
              THEN expand_vector(m, p, v.capacity * 2, realloc_ok)
              ELSE m
        m2 == IF m1.status = "running"
              THEN set_elem(m1, p, v.length, element)
              ELSE m1
    IN  IF m2.status = "running"
        THEN [m2 EXCEPT !.vec[p].length = v.length + 1]
        ELSE m2

RECURSIVE PushTimes(_, _, _, _, _)
\* for (int i = 0; i < initial_size; i++) push_back(vector, default_value);
PushTimes(m, p, element, n, realloc_ok) ==
    IF n = 0 \/ m.status # "running" THEN m
    ELSE PushTimes(push_back(m, p, element, realloc_ok), p, element, n - 1,
                   realloc_ok)

create_vector_with_default(m, elem_size, initial_size, default_value, realloc_ok) ==
    LET m1 == create_vector_with_capacity(m, elem_size, initial_size)
    IN  PushTimes(m1, Newest(m1), default_value, initial_size, realloc_ok)

\* A clone whose array is the old vector's array.
clone_shares(m, old) ==
    [m EXCEPT !.vec = Append(@, m.vec[old])]

clone(m, old) ==
    LET o == m.vec[old]
        array == Len(m.heap) + 1
        n == o.elem_size * o.length
        fresh == calloc(o.capacity, o.elem_size)
    IN  IF InBlock(m.heap[o.array], 0, n) /\ InBlock(fresh, 0, n)
        THEN [m EXCEPT !.heap = Append(@, memcpy(fresh, 0,
                                                 Bytes(m.heap[o.array], 0, n))),
                       !.vec = Append(@, [array |-> array,
                                          elem_size |-> o.elem_size,
                                          length |-> o.length,
                                          capacity |-> o.capacity])]
        ELSE Undefined(m)

RECURSIVE remove_loop(_, _, _)
\* for (int i = index + 1; i < vector->length; i++)
\*     set_elem(vector, i - 1, get_elem(vector, i));
remove_loop(m, p, i) ==
    IF m.status # "running" \/ ~(ToSize(i) < m.vec[p].length) THEN m
    ELSE IF ~Readable(m, p, i) THEN Undefined(m)
    ELSE remove_loop(set_elem(m, p, i - 1, Elem(m, p, i)), p, i + 1)

\* A remove_elem whose loop starts one element late.
remove_elem_late(m, p, index) ==
    LET m1 == remove_loop(m, p, index + 2)
    IN  IF m1.status = "running"
        THEN [m1 EXCEPT !.vec[p].length = (@ - 1) % SizeMod]
        ELSE m1

remove_elem(m, p, index) ==
    LET m1 == remove_loop(m, p, index + 1)
    IN  IF m1.status = "running"
        THEN [m1 EXCEPT !.vec[p].length = (@ - 1) % SizeMod]
        ELSE m1

\* What a memcmp of two elements needs: both inside their blocks, and no
\* byte of either indeterminate.
Comparable(m, p1, i1, p2, i2) ==
    /\ Readable(m, p1, i1) /\ Readable(m, p2, i2)
    /\ Determinate(Elem(m, p1, i1)) /\ Determinate(Elem(m, p2, i2))

\* A function's return: its value, and whether its reads were defined.
Return(value) == [value |-> value, defined |-> TRUE]
NoReturn == [value |-> 0, defined |-> FALSE]

RECURSIVE index_of_loop(_, _, _, _)
index_of_loop(m, p, element, i) ==
    IF ~(ToSize(i) < m.vec[p].length) THEN Return(0 - 1)
    ELSE IF ~(Readable(m, p, i) /\ Determinate(Elem(m, p, i))) THEN NoReturn
    ELSE IF memcmp(Elem(m, p, i), element) = 0 THEN Return(i)
    ELSE index_of_loop(m, p, element, i + 1)

RECURSIVE index_of_slots_loop(_, _, _, _)
index_of_slots_loop(m, p, element, i) ==
    IF ~(ToSize(i) < m.vec[p].capacity) THEN Return(0 - 1)
    ELSE IF ~(Readable(m, p, i) /\ Determinate(Elem(m, p, i))) THEN NoReturn
    ELSE IF memcmp(Elem(m, p, i), element) = 0 THEN Return(i)
    ELSE index_of_slots_loop(m, p, element, i + 1)

\* An index_of that scans every slot of the capacity.
index_of_slots(m, p, element) == index_of_slots_loop(m, p, element, 0)

index_of(m, p, element) == index_of_loop(m, p, element, 0)

is_empty(m, p) == IF m.vec[p].length = 0 THEN 1 ELSE 0

RECURSIVE shared_inner(_, _, _, _, _)
shared_inner(m, p1, p2, i, j) ==
    IF ~(ToSize(j) < m.vec[p2].length) THEN Return(0)
    ELSE IF ~Comparable(m, p1, i, p2, j) THEN NoReturn
    ELSE IF memcmp(Elem(m, p1, i),
                   Bytes(m.heap[m.vec[p2].array], get_elem(m.vec[p2], j),
                         m.vec[p1].elem_size)) = 0
         THEN Return(1)
    ELSE shared_inner(m, p1, p2, i, j + 1)

RECURSIVE shared_outer(_, _, _, _)
shared_outer(m, p1, p2, i) ==
    IF ~(ToSize(i) < m.vec[p1].length) THEN Return(0)
    ELSE LET r == shared_inner(m, p1, p2, i, 0)
         IN  IF ~r.defined \/ r.value = 1 THEN r
             ELSE shared_outer(m, p1, p2, i + 1)

\* An any_elems_shared whose outer loop starts at index 1.
any_elems_shared_from_1(m, p1, p2) ==
    IF m.vec[p1].elem_size # m.vec[p2].elem_size THEN Return(0)
    ELSE shared_outer(m, p1, p2, 1)

any_elems_shared(m, p1, p2) ==
    IF m.vec[p1].elem_size # m.vec[p2].elem_size THEN Return(0)
    ELSE shared_outer(m, p1, p2, 0)

\* A swap_elems without the temporary: index2 gets its own element back.
swap_elems_no_temp(m, p, index1, index2) ==
    IF index1 = index2 THEN m
    ELSE IF ~(Readable(m, p, index1) /\ Readable(m, p, index2))
    THEN Undefined(m)
    ELSE LET m1 == set_elem(m, p, index1, Elem(m, p, index2))
         IN  set_elem(m1, p, index2, Elem(m1, p, index1))

swap_elems(m, p, index1, index2) ==
    IF index1 = index2 THEN m
    ELSE IF ~(Readable(m, p, index1) /\ Readable(m, p, index2))
    THEN Undefined(m)
    ELSE LET temp == Elem(m, p, index1)
             m1 == set_elem(m, p, index1, Elem(m, p, index2))
         IN  set_elem(m1, p, index2, temp)

\* x + 1 in an int.  At INT_MAX the sum overflows: a build that wraps gives
\* INT_MIN, any other build is undefined from there on.
Overflows(x) == x = IntMax
IntSucc(x) == IF x = IntMax THEN IntMin ELSE x + 1

\* The caller's comparator reads each element as a little-endian integer;
\* `compare` is its table over pairs of such integers.
RECURSIVE Decode(_)
Decode(bytes) ==
    IF bytes = <<>> THEN 0 ELSE Head(bytes) + 256 * Decode(Tail(bytes))

NoStats == [passes |-> 0, compares |-> 0, swaps |-> 0]

RECURSIVE sort_inner(_, _, _, _)
\* for (int j = i + 1; j < vector->length; j++): f is the frame
\* [m, i, j, min_index, passes, compares, swaps]; `min` is get_elem of
\* min_index throughout.
sort_inner(f, p, compare, wraps) ==
    IF f.m.status # "running" \/ ~(ToSize(f.j) < f.m.vec[p].length) THEN f
    ELSE IF ~Comparable(f.m, p, f.min_index, p, f.j)
    THEN [f EXCEPT !.m = Undefined(@)]
    ELSE LET result == compare[<<Decode(Elem(f.m, p, f.min_index)),
                                 Decode(Elem(f.m, p, f.j))>>]
             f1 == [f EXCEPT !.min_index = IF result = 1 THEN f.j ELSE @,
                             !.compares = @ + 1]
         IN  IF Overflows(f.j) /\ ~wraps
             THEN [f1 EXCEPT !.m = Undefined(@)]
             ELSE sort_inner([f1 EXCEPT !.j = IntSucc(@)], p, compare, wraps)

RECURSIVE sort_outer(_, _, _, _)
\* for (int i = 0; i < vector->length - 1; i++): the bound is a size_t, so
\* it is length - 1 modulo 2^SizeBits, and i is converted to size_t.
sort_outer(f, p, compare, wraps) ==
    IF \/ f.m.status # "running"
       \/ ~(ToSize(f.i) < (f.m.vec[p].length - 1) % SizeMod)
    THEN f
    ELSE IF Overflows(f.i) /\ ~wraps
    THEN [f EXCEPT !.m = Undefined(@), !.passes = @ + 1]
    ELSE LET f1 == sort_inner([f EXCEPT !.min_index = f.i,
                                        !.j = IntSucc(f.i),
                                        !.passes = @ + 1],
                              p, compare, wraps)
             f2 == IF f1.m.status = "running"
                   THEN [f1 EXCEPT !.m = swap_elems(@, p, f1.i, f1.min_index),
                                   !.swaps = IF f1.i = f1.min_index
                                             THEN @ ELSE @ + 1]
                   ELSE f1
         IN  sort_outer([f2 EXCEPT !.i = IntSucc(@)], p, compare, wraps)

\* The frame sort_vector returns with: the memory it leaves and how many
\* outer passes, compare calls and exchanging swaps it made.
sort_vector(m, p, compare, wraps) ==
    sort_outer([m |-> m, i |-> 0, j |-> 0, min_index |-> 0,
                passes |-> 0, compares |-> 0, swaps |-> 0],
               p, compare, wraps)

----------------------------------------------------------------------------
(* The calls a program makes.                                              *)

ElemSizes == {1, 2}

\* The integers callers store, and their little-endian elements.
Values == {0, 1, 256}

Encode(value, elem_size) ==
    [k \in 1..elem_size |-> (value \div 256 ^ (k - 1)) % 256]

\* Decode is defined below, with the comparators that use it.
Fits(value, elem_size) ==
    \A k \in 1..4 : k > elem_size => (value \div 256 ^ (k - 1)) % 256 = 0

Elements(elem_size) ==
    {Encode(value, elem_size) : value \in {x \in Values : Fits(x, elem_size)}}

Vectors == 1..Len(vec)
Indices(p) == 0..(vec[p].length - 1)

\* The last call: its integer arguments in x and y, its element argument
\* (or <<>>) in element, its comparator (or the empty table) in compare.
NoCompare == [pair \in {} |-> 0]
Call(name, p, x, y) ==
    [name |-> name, p |-> p, x |-> x, y |-> y,
     element |-> <<>>, compare |-> NoCompare]
CallWith(name, p, x, element) ==
    [Call(name, p, x, 0) EXCEPT !.element = element]

Commit(m) == heap' = m.heap /\ vec' = m.vec /\ status' = m.status

\* An initial state holding memory m.
Starts(m) == heap = m.heap /\ vec = m.vec /\ status = m.status

Init ==
    /\ heap = <<>>
    /\ vec = <<>>
    /\ status = "running"
    /\ op = Call("none", 0, 0, 0)
    /\ ret = 0
    /\ stats = NoStats
    /\ pushed = <<>>

CreateVector(elem_size) ==
    /\ status = "running"
    /\ Commit(create_vector(Mem, elem_size))
    /\ op' = Call("create_vector", Len(vec) + 1, elem_size, DefaultCapacity)
    /\ ret' = Len(vec) + 1
    /\ stats' = NoStats

CreateVectorWithCapacity(elem_size, initial_size) ==
    /\ status = "running"
    /\ Commit(create_vector_with_capacity(Mem, elem_size, initial_size))
    /\ op' = Call("create_vector_with_capacity", Len(vec) + 1, elem_size,
                  initial_size)
    /\ ret' = Len(vec) + 1
    /\ stats' = NoStats

CreateVectorWithDefault(elem_size, initial_size, default_value, realloc_ok) ==
    /\ status = "running"
    /\ Commit(create_vector_with_default(Mem, elem_size, initial_size,
                                         default_value, realloc_ok))
    /\ op' = CallWith("create_vector_with_default", Len(vec) + 1,
                      initial_size, default_value)
    /\ ret' = Len(vec) + 1
    /\ stats' = NoStats

Clone(old) ==
    /\ status = "running"
    /\ Commit(clone(Mem, old))
    /\ op' = Call("clone", Len(vec) + 1, old, 0)
    /\ ret' = Len(vec) + 1
    /\ stats' = NoStats

SetElem(p, index, element) ==
    /\ status = "running"
    /\ Commit(set_elem(Mem, p, index, element))
    /\ op' = CallWith("set_elem", p, index, element)
    /\ ret' = 0
    /\ stats' = NoStats

PushBack(p, element, realloc_ok) ==
    /\ status = "running"
    /\ Commit(push_back(Mem, p, element, realloc_ok))
    /\ op' = CallWith("push_back", p, 0, element)
    /\ ret' = 0
    /\ stats' = NoStats

ExpandVector(p, new_size, realloc_ok) ==
    /\ status = "running"
    /\ Commit(expand_vector(Mem, p, new_size, realloc_ok))
    /\ op' = Call("expand_vector", p, new_size, 0)
    /\ ret' = 0
    /\ stats' = NoStats

RemoveElem(p, index) ==
    /\ status = "running"
    /\ Commit(remove_elem(Mem, p, index))
    /\ op' = Call("remove_elem", p, index, 0)
    /\ ret' = 0
    /\ stats' = NoStats

SwapElems(p, index1, index2) ==
    /\ status = "running"
    /\ Commit(swap_elems(Mem, p, index1, index2))
    /\ op' = Call("swap_elems", p, index1, index2)
    /\ ret' = 0
    /\ stats' = NoStats

SortVector(p, compare, wraps) ==
    LET f == sort_vector(Mem, p, compare, wraps)
    IN  /\ status = "running"
        /\ Commit(f.m)
        /\ op' = [Call("sort_vector", p, 0, 0) EXCEPT !.compare = compare]
        /\ ret' = 0
        /\ stats' = [passes |-> f.passes, compares |-> f.compares,
                     swaps |-> f.swaps]
    
\* A function that only reads: an undefined read leaves status "undefined".
Query(call, r) ==
    /\ status = "running"
    /\ heap' = heap /\ vec' = vec
    /\ status' = IF r.defined THEN "running" ELSE "undefined"
    /\ op' = call
    /\ ret' = r.value
    /\ stats' = NoStats

IndexOf(p, element) ==
    Query(CallWith("index_of", p, 0, element), index_of(Mem, p, element))

IsEmpty(p) == Query(Call("is_empty", p, 0, 0), Return(is_empty(Mem, p)))

AnyElemsShared(p1, p2) ==
    Query(Call("any_elems_shared", p1, p2, 0), any_elems_shared(Mem, p1, p2))

----------------------------------------------------------------------------
(* Comparators: tables over the integers the elements decode to.           *)

Sign(x) == IF x > 0 THEN 1 ELSE IF x = 0 THEN 0 ELSE 0 - 1

Decoded(elem_size) == {Decode(e) : e \in Elements(elem_size)}

\* 1 if elem1 > elem2, 0 if equal, -1 if elem1 < elem2 (vector.c:393).
Ascending(D) == [pr \in D \X D |-> Sign(pr[1] - pr[2])]
\* Greater-than when a < b: sorts descending.
Descending(D) == [pr \in D \X D |-> Sign(pr[2] - pr[1])]

----------------------------------------------------------------------------
(* Spec: one vector and the calls that construct, fill, reorder and search *)
(* it, with every index in [0, length).                                    *)

Next ==
    \/ \E elem_size \in ElemSizes :
          /\ vec = <<>>
          /\ CreateVector(elem_size)
          /\ UNCHANGED pushed
    \/ \E elem_size \in ElemSizes, initial_size \in 0..MaxLen :
          /\ vec = <<>>
          /\ CreateVectorWithCapacity(elem_size, initial_size)
          /\ UNCHANGED pushed
    \/ \E elem_size \in ElemSizes, initial_size \in 0..MaxLen :
          \E default_value \in Elements(elem_size) :
             /\ vec = <<>>
             /\ CreateVectorWithDefault(elem_size, initial_size,
                                        default_value, TRUE)
             /\ UNCHANGED pushed
    \/ \E p \in Vectors, realloc_ok \in BOOLEAN :
          \E element \in Elements(vec[p].elem_size) :
             /\ vec[p].length < MaxLen
             /\ PushBack(p, element, realloc_ok)
             /\ UNCHANGED pushed
    \/ \E p \in Vectors : \E index \in Indices(p) :
          \E element \in Elements(vec[p].elem_size) :
             /\ SetElem(p, index, element)
             /\ UNCHANGED pushed
    \/ \E p \in Vectors : \E index \in Indices(p) :
          /\ RemoveElem(p, index)
          /\ UNCHANGED pushed
    \/ \E p \in Vectors : \E index1, index2 \in Indices(p) :
          /\ SwapElems(p, index1, index2)
          /\ UNCHANGED pushed
    \/ \E p \in Vectors, wraps \in BOOLEAN :
          /\ SortVector(p, Ascending(Decoded(vec[p].elem_size)), wraps)
          /\ UNCHANGED pushed
    \/ \E p \in Vectors : \E element \in Elements(vec[p].elem_size) :
          /\ IndexOf(p, element)
          /\ UNCHANGED pushed
    \/ \E p \in Vectors :
          /\ IsEmpty(p)
          /\ UNCHANGED pushed

Spec == Init /\ [][Next]_vars

----------------------------------------------------------------------------
(* SpecCap: up to MaxVectors vectors, built by every constructor, under    *)
(* every mutating call, expand_vector with any new_size >= 1 among them    *)
(* (what realloc returns for 0 bytes is the implementation's choice).      *)

MaxVectors == 2
CapMaxLen == 2
CapElements(elem_size) == {Encode(1, elem_size)}

CapElemSizes == {1}
CapMaxRequest == 3

NextCap ==
    \/ \E elem_size \in CapElemSizes :
          /\ Len(vec) < MaxVectors
          /\ CreateVector(elem_size)
          /\ UNCHANGED pushed
    \/ \E elem_size \in CapElemSizes, initial_size \in 0..CapMaxRequest :
          /\ Len(vec) < MaxVectors
          /\ CreateVectorWithCapacity(elem_size, initial_size)
          /\ UNCHANGED pushed
    \/ \E elem_size \in CapElemSizes, initial_size \in 0..CapMaxLen :
          \E default_value \in CapElements(elem_size) :
             /\ Len(vec) < MaxVectors
             /\ CreateVectorWithDefault(elem_size, initial_size,
                                        default_value, TRUE)
             /\ UNCHANGED pushed
    \/ \E old \in Vectors :
          /\ Len(vec) < MaxVectors
          /\ Clone(old)
          /\ UNCHANGED pushed
    \/ \E p \in Vectors, realloc_ok \in BOOLEAN :
          \E element \in CapElements(vec[p].elem_size) :
             /\ vec[p].length < CapMaxLen
             /\ PushBack(p, element, realloc_ok)
             /\ UNCHANGED pushed
    \/ \E p \in Vectors : \E index \in Indices(p) :
          /\ RemoveElem(p, index)
          /\ UNCHANGED pushed
    \/ \E p \in Vectors : \E index1, index2 \in Indices(p) :
          /\ SwapElems(p, index1, index2)
          /\ UNCHANGED pushed
    \/ \E p \in Vectors, wraps \in BOOLEAN :
          /\ SortVector(p, Ascending(Decoded(vec[p].elem_size)), wraps)
          /\ UNCHANGED pushed
    \/ \E p \in Vectors, new_size \in 1..CapMaxRequest, realloc_ok \in BOOLEAN :
          /\ ExpandVector(p, new_size, realloc_ok)
          /\ UNCHANGED pushed

SpecCap == Init /\ [][NextCap]_vars

----------------------------------------------------------------------------
(* SpecPush: a fresh empty vector and nothing but push_back.               *)

PushMaxLen == 5

NextPush ==
    \/ \E elem_size \in ElemSizes :
          /\ vec = <<>>
          /\ CreateVector(elem_size)
          /\ UNCHANGED pushed
    \/ \E elem_size \in ElemSizes, initial_size \in 0..MaxRequest :
          /\ vec = <<>>
          /\ CreateVectorWithCapacity(elem_size, initial_size)
          /\ UNCHANGED pushed
    \/ \E p \in Vectors, realloc_ok \in BOOLEAN :
          \E element \in Elements(vec[p].elem_size) :
             /\ vec[p].length < PushMaxLen
             /\ PushBack(p, element, realloc_ok)
             /\ pushed' = Append(pushed, element)

SpecPush == Init /\ [][NextPush]_vars

----------------------------------------------------------------------------
(* SpecSort: sort_vector as a function of its input.  Init draws a vector  *)
(* (a constructor call and the push_back calls that fill it) and the one   *)
(* action sorts it with a comparator drawn from SortComparators.           *)

SortMaxLen == 3
\* Three integers per element size, the largest with its top byte set.
SortValues(elem_size) == {0, 1, 2 * 256 ^ (elem_size - 1)}

SortElements(elem_size) ==
    {Encode(value, elem_size) : value \in SortValues(elem_size)}

SortDecoded(elem_size) == {Decode(e) : e \in SortElements(elem_size)}

\* The comparator of a ranking: every total, transitive comparator over D
\* is the comparator of some ranking of D.
RankCompare(rank) ==
    [pr \in (DOMAIN rank) \X (DOMAIN rank) |->
        Sign(rank[pr[1]] - rank[pr[2]])]

Constantly(D, result) == [pr \in D \X D |-> result]

SortComparators(D) ==
    {RankCompare(rank) : rank \in [D -> 0..(Cardinality(D) - 1)]}
        \cup {Constantly(D, 1), Constantly(D, 0 - 1)}

RECURSIVE PushAll(_, _, _)
PushAll(m, p, elements) ==
    IF elements = <<>> THEN m
    ELSE PushAll(push_back(m, p, Head(elements), TRUE), p, Tail(elements))

NoMem == [heap |-> <<>>, vec |-> <<>>, status |-> "running"]

\* create_vector_with_capacity(elem_size, initial_size), then one push_back
\* per element.
Filled(elem_size, initial_size, elements) ==
    PushAll(create_vector_with_capacity(NoMem, elem_size, initial_size),
            1, elements)

SeqsUpTo(S, n) == UNION {[1..k -> S] : k \in 0..n}

\* The scenario: 4-byte integers 1, 2, 3, 4, 5 appended to create_vector(4).
ScenarioValues == {1, 2, 3, 4, 5}
ScenarioElement(value) == Encode(value, 4)
Scenario ==
    Filled(4, DefaultCapacity, [k \in 1..5 |-> ScenarioElement(k)])

InitSort ==
    /\ \/ \E elem_size \in ElemSizes, initial_size \in {0, DefaultCapacity} :
             \E elements \in SeqsUpTo(SortElements(elem_size), SortMaxLen) :
                Starts(Filled(elem_size, initial_size, elements))
       \/ Starts(Scenario)
    /\ op = Call("none", 0, 0, 0)
    /\ ret = 0
    /\ stats = NoStats
    /\ pushed = <<>>

NextSort ==
    \/ /\ op.name = "none"
       /\ vec[1].elem_size \in ElemSizes
       /\ \E wraps \in BOOLEAN :
             \E compare \in SortComparators(SortDecoded(vec[1].elem_size)) :
                /\ SortVector(1, compare, wraps)
                /\ UNCHANGED pushed
    \/ /\ op.name = "none"
       /\ vec[1].elem_size = 4
       /\ \E wraps \in BOOLEAN :
             /\ SortVector(1, Descending(ScenarioValues), wraps)
             /\ UNCHANGED pushed

SpecSort == InitSort /\ [][NextSort]_vars

----------------------------------------------------------------------------
(* SpecClone: a vector filled by push_back, its clone, and then every      *)
(* mutating call on one of the two (the vector the first call after the    *)
(* clone names).                                                           *)

CloneMaxLen == 2

\* Whether the program, holding two vectors, works on vector p.
WorksOn(p) == Len(vec) = 2 /\ (op.name = "clone" \/ op.p = p)

NextClone ==
    \/ \E elem_size \in ElemSizes :
          /\ vec = <<>>
          /\ CreateVectorWithCapacity(elem_size, 0)
          /\ UNCHANGED pushed
    \/ /\ Len(vec) = 1
       /\ Clone(1)
       /\ UNCHANGED pushed
    \/ \E p \in Vectors :
          \E element \in Elements(vec[p].elem_size) :
             /\ Len(vec) = 1 \/ WorksOn(p)
             /\ vec[p].length < CloneMaxLen
             /\ PushBack(p, element, TRUE)
             /\ UNCHANGED pushed
    \/ \E p \in Vectors : \E index \in Indices(p) :
          \E element \in Elements(vec[p].elem_size) :
             /\ WorksOn(p)
             /\ SetElem(p, index, element)
             /\ UNCHANGED pushed
    \/ \E p \in Vectors : \E index \in Indices(p) :
          /\ WorksOn(p)
          /\ RemoveElem(p, index)
          /\ UNCHANGED pushed
    \/ \E p \in Vectors : \E index1, index2 \in Indices(p) :
          /\ WorksOn(p)
          /\ SwapElems(p, index1, index2)
          /\ UNCHANGED pushed
    \/ \E p \in Vectors :
          /\ WorksOn(p)
          /\ vec[p].length > 0
          /\ SortVector(p, Descending(Decoded(vec[p].elem_size)), TRUE)
          /\ UNCHANGED pushed

SpecClone == Init /\ [][NextClone]_vars

----------------------------------------------------------------------------
(* SpecShared: any_elems_shared as a function of two vectors.  Init draws  *)
(* the two (each a constructor call and the push_back calls that fill it); *)
(* remove_elem leaves stale copies behind the length.                      *)

SharedMaxLen == 2

InitShared ==
    /\ \E size1, size2 \in ElemSizes :
          \E elements1 \in SeqsUpTo(Elements(size1), SharedMaxLen),
             elements2 \in SeqsUpTo(Elements(size2), SharedMaxLen) :
             Starts(PushAll(create_vector_with_capacity(
                                Filled(size1, 0, elements1), size2, 0),
                            2, elements2))
    /\ op = Call("none", 0, 0, 0)
    /\ ret = 0
    /\ stats = NoStats
    /\ pushed = <<>>

NextShared ==
    \/ \E p \in Vectors : \E index \in Indices(p) :
          /\ RemoveElem(p, index)
          /\ UNCHANGED pushed
    \/ \E p1, p2 \in Vectors :
          /\ AnyElemsShared(p1, p2)
          /\ UNCHANGED pushed

SpecShared == InitShared /\ [][NextShared]_vars

----------------------------------------------------------------------------
(* What the claims are stated with.                                        *)

\* The memory a step leaves.
MemNext == [heap |-> heap', vec |-> vec', status |-> status']

\* The elements of vector p, index 0 first.
Contents(m, p) == [k \in 1..m.vec[p].length |-> Elem(m, p, k - 1)]

PowersOfTwo == {2 ^ k : k \in 0..(SizeBits - 1)}

LeastPowerOfTwoAtLeast(x) ==
    CHOOSE c \in PowersOfTwo :
        c >= x /\ \A d \in PowersOfTwo : d >= x => c <= d

\* How often element e occurs in the sequence of elements s.
Count(s, e) == Cardinality({k \in 1..Len(s) : s[k] = e})

IsPermutation(s, t) ==
    /\ Len(s) = Len(t)
    /\ \A k \in 1..Len(s) : Count(s, s[k]) = Count(t, s[k])

\* A comparator that is total (compare(b, a) = -compare(a, b)) and
\* transitive.
TotalTransitive(compare) ==
    LET D == {pr[1] : pr \in DOMAIN compare}
    IN  /\ \A a, b \in D : compare[<<b, a>>] = 0 - compare[<<a, b>>]
        /\ \A a, b, c \in D :
              compare[<<a, b>>] <= 0 /\ compare[<<b, c>>] <= 0
                  => compare[<<a, c>>] <= 0

----------------------------------------------------------------------------
(* C1 (SpecCap).  In every reachable state every vector has                *)
(* length <= capacity.  expand_vector(v, new_size) with new_size < length  *)
(* leaves capacity = new_size below the length.                            *)
C1_LengthWithinCapacity ==
    status = "running" =>
        \A p \in Vectors : vec[p].length <= vec[p].capacity

(* C2 (SpecCap).  In every reachable state every vector's capacity is a    *)
(* power of two and at least 1.  expand_vector sets capacity to new_size   *)
(* as passed, whatever it is.                                              *)
C2_CapacityPowerOfTwo ==
    status = "running" =>
        \A p \in Vectors : vec[p].capacity >= 1 /\ vec[p].capacity \in PowersOfTwo

(* C3 (SpecPush).  create_vector_with_capacity(elem_size, min_capacity)    *)
(* returns an empty vector whose capacity is the least power of two        *)
(* >= min_capacity, and create_vector one of capacity 16.  For             *)
(* min_capacity 0 and 1 the least power of two is 1; the code gives 2.     *)
C3_LeastPowerOfTwo ==
    /\ op.name = "create_vector_with_capacity" =>
          /\ vec[op.p].length = 0
          /\ vec[op.p].capacity = LeastPowerOfTwoAtLeast(op.y)
    /\ op.name = "create_vector" =>
          vec[op.p].length = 0 /\ vec[op.p].capacity = 16

(* C4 (SpecPush).  On a fresh empty vector and under push_back alone:      *)
(* after k calls the length is k and the elements are the k values pushed, *)
(* in order; a push never lowers the capacity, changes it only when it     *)
(* finds length = capacity, then to exactly twice the capacity, and leaves *)
(* it the least power of two >= the new length and >= the old capacity;    *)
(* no push reads or writes outside the buffer.                             *)
C4_PushOnly ==
    [][/\ status' # "undefined"
       /\ status' = "running" /\ vec' # <<>> =>
          /\ vec'[1].length = Len(pushed')
          /\ Contents(MemNext, 1) = pushed'
          /\ op'.name = "push_back" =>
                /\ vec'[1].length = vec[1].length + 1
                /\ vec'[1].capacity >= vec[1].capacity
                /\ vec'[1].capacity =
                      IF vec[1].length = vec[1].capacity
                      THEN 2 * vec[1].capacity ELSE vec[1].capacity
                /\ vec'[1].capacity =
                      LeastPowerOfTwoAtLeast(Max(vec'[1].length,
                                                 vec[1].capacity))]_vars

\* Five pushes into a vector of capacity 2: grown twice, nothing lost.
C4_Witness ==
    /\ status = "running" /\ vec # <<>> /\ op.name = "push_back"
    /\ vec[1].length = 5 /\ vec[1].capacity = 8 /\ vec[1].elem_size = 2
    /\ Contents(Mem, 1) = pushed
    /\ pushed[1] # pushed[5]

(* C5 (SpecSort).  sort_vector returns for a vector of any length, the     *)
(* empty one included, after at most length - 1 outer passes (none for     *)
(* lengths 0 and 1), at most length*(length-1)/2 compare calls and at most *)
(* one swap per pass.  For the empty vector the loop bound                 *)
(* vector->length - 1 is SIZE_MAX.                                         *)
C5_SortBounded ==
    op.name = "sort_vector" =>
        /\ status = "running"
        /\ stats.passes <= Max(vec[op.p].length - 1, 0)
        /\ 2 * stats.compares <= vec[op.p].length * (vec[op.p].length - 1)
        /\ stats.swaps <= stats.passes

(* C6 (SpecSort).  When sort_vector returns under a total, transitive      *)
(* comparator, the vector's fields are unchanged, its elements are a       *)
(* permutation of the input's, and no earlier element compares greater     *)
(* than a later one; 1,2,3,4,5 under the descending comparator becomes     *)
(* 5,4,3,2,1.                                                              *)
C6_SortSorts ==
    [][op'.name = "sort_vector" /\ status' = "running"
          /\ TotalTransitive(op'.compare) =>
          LET p == op'.p
              before == Contents(Mem, p)
              after == Contents(MemNext, p)
          IN  /\ vec' = vec
              /\ IsPermutation(before, after)
              /\ \A i, j \in 1..Len(after) :
                    i < j => op'.compare[<<Decode(after[i]), Decode(after[j])>>] # 1
              /\ (/\ before = [k \in 1..5 |-> ScenarioElement(k)]
                  /\ op'.compare = Descending(ScenarioValues))
                    => after = [k \in 1..5 |-> ScenarioElement(6 - k)]]_vars

\* The scenario, sorted: two passes exchanged elements.
C6_Witness ==
    /\ op.name = "sort_vector" /\ status = "running"
    /\ op.compare = Descending(ScenarioValues)
    /\ Contents(Mem, 1) = [k \in 1..5 |-> ScenarioElement(6 - k)]
    /\ stats.swaps = 2

(* C7 (Spec).  remove_elem(v, i) with 0 <= i < length lowers the length by *)
(* one, leaves the elements before i where they were, moves each element   *)
(* after i one index down, and leaves capacity and elem_size alone.        *)
C7_RemoveShifts ==
    [][op'.name = "remove_elem" /\ status' = "running" =>
          LET p == op'.p
              i == op'.x
          IN  /\ vec'[p] = [vec[p] EXCEPT !.length = vec[p].length - 1]
              /\ \A k \in 0..(i - 1) : Elem(MemNext, p, k) = Elem(Mem, p, k)
              /\ \A k \in (i + 1)..(vec[p].length - 1) :
                    Elem(MemNext, p, k - 1) = Elem(Mem, p, k)]_vars

\* The middle one of three elements removed, its neighbours differing.
C7_Witness ==
    /\ op.name = "remove_elem" /\ status = "running" /\ op.x = 1
    /\ vec[op.p].length = 2 /\ vec[op.p].elem_size = 2
    /\ Elem(Mem, op.p, 0) # Elem(Mem, op.p, 1)

C9_SharedIsAnyPair ==
    [][op'.name = "any_elems_shared" =>
          LET p1 == op'.p
              p2 == op'.x
              same == vec[p1].elem_size = vec[p2].elem_size
          IN  /\ status' = "running"
              /\ ret' = IF same /\ \E i \in Indices(p1), j \in Indices(p2) :
                                      Elem(Mem, p1, i) = Elem(Mem, p2, j)
                        THEN 1 ELSE 0
              /\ ret' = any_elems_shared(Mem, p2, p1).value
              /\ vec[p1].length = 0 \/ vec[p2].length = 0 => ret' = 0
              /\ ~same => ret' = 0
              /\ heap' = heap /\ vec' = vec]_vars

\* A shared element found past the first pair.
C9_Witness ==
    /\ op.name = "any_elems_shared" /\ ret = 1 /\ op.p # op.x
    /\ vec[op.p].length = 2 /\ vec[op.x].length = 1
    /\ Elem(Mem, op.p, 0) # Elem(Mem, op.x, 0)
    /\ Elem(Mem, op.p, 1) = Elem(Mem, op.x, 0)

(* C10 (Spec).  index_of(v, e) returns the lowest index below the length   *)
(* whose element equals e, -1 if there is none (a copy of e in a slot at   *)
(* or past the length is not reported), and changes nothing.               *)
C10_IndexOfLowest ==
    [][op'.name = "index_of" /\ status' = "running" =>
          LET p == op'.p
              hits == {i \in Indices(p) : Elem(Mem, p, i) = op'.element}
          IN  /\ ret' = IF hits = {} THEN 0 - 1
                        ELSE CHOOSE i \in hits : \A k \in hits : i <= k
              /\ heap' = heap /\ vec' = vec]_vars

\* Not found, though remove_elem left a copy in the slot at the length.
C10_Witness ==
    /\ op.name = "index_of" /\ status = "running" /\ ret = 0 - 1
    /\ vec[op.p].length >= 1
    /\ vec[op.p].length < vec[op.p].capacity
    /\ Elem(Mem, op.p, vec[op.p].length) = op.element
    /\ Decode(op.element) # 0

====
